---- MODULE Spec2Model ----
(***************************************************************************)
(* State-machine model of the SailPoint support bot backend:               *)
(*   backend/sailpoint_api.py  SailPointAPI, SailPointAPIClient            *)
(*   backend/mcp_server.py     the three tool handlers and the facade slot *)
(*   backend/main.py           startup_event and the /chat turn            *)
(*                                                                         *)
(* Python strings are modelled as Text: a sequence of string atoms, so     *)
(* that an f-string is a concatenation and "contains" can be decided.      *)
(* A dict is a function whose DOMAIN is its key set.  An outbound call is  *)
(* one step: the request leaves in one action and the action that takes    *)
(* the reply runs the code up to the next outbound call.                   *)
(***************************************************************************)
EXTENDS Integers, Sequences, FiniteSets, TLC

VARIABLES
    boot,          \* startup_event: where it is, and the token endpoint's reply to it
    groq_client,   \* main.groq_client: is the LLM client set (BOOLEAN)
    main_api,      \* main.sailpoint_api: NoneRef or a reference into heap
    mcp_api,       \* mcp_server.sailpoint_api: NoneRef or a reference into heap
    heap,          \* object reference -> the object's instance attributes
    th             \* per request handler: the locals of its chat turn

vars == <<boot, groq_client, main_api, mcp_api, heap, th>>

----------------------------------------------------------------------------
(* Values *)

\* Python's None, as a Text no string equals.
NoneVal == <<"<None>">>

\* The empty str.
EmptyStr == <<>>

\* bool(x) for x a str or None: `if not self.access_token`, `if not sailpoint_api`.
Truthy(x) == x # NoneVal /\ x # EmptyStr

\* An unset global reference, and the two objects the program allocates.
NoneRef == "None"
ApiRef == "SailPointAPI"
FacadeRef == "SailPointAPIClient"

\* {} and dict.get(key, default).
EmptyDict == [k \in {} |-> EmptyStr]
DictGet(d, k, default) == IF k \in DOMAIN d THEN d[k] ELSE default

\* Every dict over a subset of the keys DOMAIN vals, each value drawn from vals[key].
DictsOver(vals) ==
    LET all == UNION { [ks -> UNION {vals[k] : k \in ks}] : ks \in SUBSET DOMAIN vals }
    IN  {d \in all : \A k \in DOMAIN d : d[k] \in vals[k]}

\* The outcome of running a piece of code: it returns a value or raises.
Return(v) == [kind |-> "return", value |-> v]
Raise(e) == [kind |-> "raise", value |-> e]

\* Whether Text `part` occurs in Text `whole` as a contiguous run.
Contains(whole, part) ==
    \E i \in 0..(Len(whole) - Len(part)) :
        \A j \in 1..Len(part) : whole[i + j] = part[j]

----------------------------------------------------------------------------
(* Configuration (config.py) *)

SAILPOINT_API_URL == <<"https://iiq.example">>
SAILPOINT_CLIENT_ID == <<"client-id">>
SAILPOINT_CLIENT_SECRET == <<"client-secret">>

HTTP_OK == 200
HTTP_UNAUTHORIZED == 401

\* The statuses that stand for "any other status" (neither 200 nor 401).
OtherStatuses == {403}
HTTP_SERVER_ERROR == 500

----------------------------------------------------------------------------
(* What the outside world can answer *)

\* response.json(): the body does not parse, parses to something that is not
\* an object, or parses to an object.
InvalidJson == [parse |-> "invalid", data |-> EmptyDict]
NonObjectJson == [parse |-> "nonobject", data |-> EmptyDict]
ObjectJson(d) == [parse |-> "object", data |-> d]

TransportErrors == {<<"ConnectionError">>}
ErrorBodies == {<<"error body">>}

HttpException(e) ==
    [kind |-> "exception", status_code |-> 0, json |-> InvalidJson, text |-> e]
HttpResponse(code, js, text) ==
    [kind |-> "response", status_code |-> code, json |-> js, text |-> text]

\* The token endpoint.
IssuedTokens == {<<"tokA">>, <<"tokB">>}
TokenBodies ==
    {ObjectJson([access_token |-> tok]) : tok \in IssuedTokens \cup {EmptyStr}}
        \cup {ObjectJson(EmptyDict), InvalidJson}
TokenReplies ==
    {HttpException(e) : e \in TransportErrors}
        \cup {HttpResponse(HTTP_OK, js, <<"token body">>) : js \in TokenBodies}
        \cup {HttpResponse(HTTP_UNAUTHORIZED, InvalidJson, t) : t \in ErrorBodies}

\* The refresh endpoint: the fields the client reads from a 200 body.
RefreshFields ==
    [status |-> {<<"success">>, <<"failed">>},
     userId |-> {<<"Aaron.Nichols">>},
     message |-> {<<"Refresh started">>},
     taskStatus |-> {<<"Queued">>}]
RefreshBodies ==
    {d \in DictsOver(RefreshFields) :
        ("taskStatus" \in DOMAIN d) = ("message" \in DOMAIN d)}
RefreshReplies ==
    {HttpException(e) : e \in TransportErrors}
        \cup {HttpResponse(HTTP_OK, ObjectJson(d), <<"refresh body">>) : d \in RefreshBodies}
        \cup {HttpResponse(HTTP_OK, js, <<"refresh body">>) : js \in {InvalidJson, NonObjectJson}}
        \cup {HttpResponse(c, InvalidJson, t) :
                c \in {HTTP_UNAUTHORIZED} \cup OtherStatuses, t \in ErrorBodies}

\* datetime.now().isoformat(): what the clock reads when a result is built.
Clock == {<<"ts1">>, <<"ts2">>}

----------------------------------------------------------------------------
(* SailPointAPI (sailpoint_api.py) *)

\* SailPointAPI.__init__, lines 20-23: the attributes of a new instance.
SailPointAPI_init ==
    [base_url |-> SAILPOINT_API_URL,
     client_id |-> SAILPOINT_CLIENT_ID,
     client_secret |-> SAILPOINT_CLIENT_SECRET,
     access_token |-> NoneVal]

\* response.json() of a reply, then `.get` on it: raises unless an object.
ResponseJson(http) ==
    CASE http.json.parse = "invalid" -> Raise(<<"JSONDecodeError: Expecting value">>)
      [] http.json.parse = "nonobject" -> Raise(<<"AttributeError: no attribute 'get'">>)
      [] OTHER -> Return(http.json.data)

\* The mutant of get_oauth_token that leaves the stored token as it was when
\* the token endpoint does not answer 200.
get_oauth_token_keep(access_token, http) ==
    LET body ==
            IF http.kind = "exception" THEN Raise(http.text)
            ELSE IF http.status_code = HTTP_OK
                 THEN LET js == ResponseJson(http)
                      IN  IF js.kind = "raise" THEN js
                          ELSE Return(DictGet(js.value, "access_token", NoneVal))
                 ELSE Return(access_token)
    IN  IF body.kind = "raise"
        THEN [kind |-> "return", value |-> NoneVal, access_token |-> NoneVal]
        ELSE [kind |-> "return", value |-> NoneVal, access_token |-> body.value]

\* SailPointAPI._get_oauth_token: the outcome (it returns None or raises) and
\* the value self.access_token holds afterwards, given the token held before
\* and the token endpoint's reply.
get_oauth_token(access_token, http) ==
    LET body ==
            IF http.kind = "exception" THEN Raise(http.text)
            ELSE IF http.status_code = HTTP_OK
                 THEN LET js == ResponseJson(http)
                      IN  IF js.kind = "raise" THEN js
                          ELSE Return(DictGet(js.value, "access_token", NoneVal))
                 ELSE Return(NoneVal)
    IN  IF body.kind = "raise"
        THEN [kind |-> "return", value |-> NoneVal, access_token |-> NoneVal]
        ELSE [kind |-> "return", value |-> NoneVal, access_token |-> body.value]

\* str(x) inside an f-string, for x a str or None.
PyStr(x) == IF x = NoneVal THEN <<"None">> ELSE x

\* SailPointAPI._get_headers, given the value of self.access_token it reads.
get_headers(access_token) ==
    [ContentType |-> <<"application/json">>,
     Authorization |-> <<"Bearer ">> \o PyStr(access_token)]

\* The refresh URL of line 86.
RefreshUrl(base_url, user_id) ==
    PyStr(base_url)
        \o <<"/identityiq/plugin/rest/RefreshIdentity/refreshIdentitySingleUser?userId=">>
        \o PyStr(user_id)

\* The mutant of FirstTryResult that always echoes the requested user_id.
FirstTryResult_requested(base_url, user_id, sailpoint_data, now) ==
    [success |-> (DictGet(sailpoint_data, "status", NoneVal) = <<"success">>),
     user_id |-> user_id,
     message |-> DictGet(sailpoint_data, "message",
                         <<"Identity refresh triggered for ">> \o PyStr(user_id)),
     task_status |-> DictGet(sailpoint_data, "taskStatus", <<"Unknown">>),
     sailpoint_response |-> sailpoint_data,
     api_endpoint |-> RefreshUrl(base_url, user_id),
     timestamp |-> now]

\* The result dict of lines 100-108: a 200 on the first request.
FirstTryResult(base_url, user_id, sailpoint_data, now) ==
    [success |-> (DictGet(sailpoint_data, "status", NoneVal) = <<"success">>),
     user_id |-> DictGet(sailpoint_data, "userId", user_id),
     message |-> DictGet(sailpoint_data, "message",
                         <<"Identity refresh triggered for ">> \o PyStr(user_id)),
     task_status |-> DictGet(sailpoint_data, "taskStatus", <<"Unknown">>),
     sailpoint_response |-> sailpoint_data,
     api_endpoint |-> RefreshUrl(base_url, user_id),
     timestamp |-> now]

\* The mutant of RetryResult that leaves the endpoint out of the retry's result.
RetryResult_noendpoint(base_url, user_id, sailpoint_data, now) ==
    [success |-> (DictGet(sailpoint_data, "status", NoneVal) = <<"success">>),
     user_id |-> DictGet(sailpoint_data, "userId", user_id),
     message |-> DictGet(sailpoint_data, "message",
                         <<"Identity refresh triggered for ">> \o PyStr(user_id)),
     task_status |-> DictGet(sailpoint_data, "taskStatus", <<"Unknown">>),
     sailpoint_response |-> sailpoint_data,
     timestamp |-> now]

\* The result dict of lines 120-128: a 200 on the retry.
RetryResult(base_url, user_id, sailpoint_data, now) ==
    [success |-> (DictGet(sailpoint_data, "status", NoneVal) = <<"success">>),
     user_id |-> DictGet(sailpoint_data, "userId", user_id),
     message |-> DictGet(sailpoint_data, "message",
                         <<"Identity refresh triggered for ">> \o PyStr(user_id)),
     task_status |-> DictGet(sailpoint_data, "taskStatus", <<"Unknown">>),
     sailpoint_response |-> sailpoint_data,
     api_endpoint |-> RefreshUrl(base_url, user_id),
     timestamp |-> now]

\* The result dict of lines 131-137: the retry answered something other than 200.
RetryFailedResult(user_id, http, now) ==
    [success |-> FALSE,
     user_id |-> user_id,
     message |-> <<"Authentication failed: ", ToString(http.status_code)>>,
     error_details |-> http.text,
     timestamp |-> now]

\* The result dict of lines 140-146: a first answer that is neither 200 nor 401.
ApiErrorResult(user_id, http, now) ==
    [success |-> FALSE,
     user_id |-> user_id,
     message |-> <<"API error: ", ToString(http.status_code)>>,
     error_details |-> http.text,
     timestamp |-> now]

\* The result dict of lines 147-154: `except Exception as e`.
ExceptResult(user_id, e, now) ==
    [success |-> FALSE,
     user_id |-> user_id,
     message |-> e,
     timestamp |-> now]

\* The mutant of on_first_reply that re-authenticates on 403 as on 401.
on_first_reply_403(base_url, user_id, http, now) ==
    LET body ==
            IF http.kind = "exception" THEN Raise(http.text)
            ELSE IF http.status_code = HTTP_OK
                 THEN LET js == ResponseJson(http)
                      IN  IF js.kind = "raise" THEN js
                          ELSE Return(FirstTryResult(base_url, user_id, js.value, now))
            ELSE IF http.status_code \in {HTTP_UNAUTHORIZED} \cup OtherStatuses
                 THEN [kind |-> "reauth", value |-> NoneVal]
            ELSE Return(ApiErrorResult(user_id, http, now))
    IN  IF body.kind = "raise"
        THEN Return(ExceptResult(user_id, body.value, now))
        ELSE body

\* trigger_refresh from the first reply on, lines 90-111 and 138-154: what the
\* call does next.  "reauth": it goes on to line 112; otherwise it is over
\* and `outcome` is how (it returns a result or raises).
on_first_reply(base_url, user_id, http, now) ==
    LET body ==
            IF http.kind = "exception" THEN Raise(http.text)
            ELSE IF http.status_code = HTTP_OK
                 THEN LET js == ResponseJson(http)
                      IN  IF js.kind = "raise" THEN js
                          ELSE Return(FirstTryResult(base_url, user_id, js.value, now))
            ELSE IF http.status_code = HTTP_UNAUTHORIZED
                 THEN [kind |-> "reauth", value |-> NoneVal]
            ELSE Return(ApiErrorResult(user_id, http, now))
    IN  IF body.kind = "raise"
        THEN Return(ExceptResult(user_id, body.value, now))
        ELSE body

\* The mutant of on_retry_reply that re-authenticates and retries again when
\* the retry is answered 401.
on_retry_reply_again(base_url, user_id, http, now) ==
    LET body ==
            IF http.kind = "exception" THEN Raise(http.text)
            ELSE IF http.status_code = HTTP_OK
                 THEN LET js == ResponseJson(http)
                      IN  IF js.kind = "raise" THEN js
                          ELSE Return(RetryResult(base_url, user_id, js.value, now))
            ELSE IF http.status_code = HTTP_UNAUTHORIZED
                 THEN [kind |-> "reauth", value |-> NoneVal]
            ELSE Return(RetryFailedResult(user_id, http, now))
    IN  IF body.kind = "raise"
        THEN Return(ExceptResult(user_id, body.value, now))
        ELSE body

\* trigger_refresh from the retry's reply on, lines 114-137 and 147-154.
on_retry_reply(base_url, user_id, http, now) ==
    LET body ==
            IF http.kind = "exception" THEN Raise(http.text)
            ELSE IF http.status_code = HTTP_OK
                 THEN LET js == ResponseJson(http)
                      IN  IF js.kind = "raise" THEN js
                          ELSE Return(RetryResult(base_url, user_id, js.value, now))
            ELSE Return(RetryFailedResult(user_id, http, now))
    IN  IF body.kind = "raise"
        THEN Return(ExceptResult(user_id, body.value, now))
        ELSE body

\* SailPointAPI.get_request_status: the placeholder result.
get_request_status(request_id) ==
    [success |-> FALSE,
     message |-> <<"This is a placeholder - API endpoint not yet configured">>,
     request_id |-> request_id,
     note |-> <<"check_request_status is a dummy tool - no SailPoint API URL available">>]

\* The mutant of get_identity whose message depends on the user asked about.
get_identity_named(user_id) ==
    [success |-> FALSE,
     message |-> <<"No identity endpoint configured for ">> \o PyStr(user_id),
     user_id |-> user_id,
     note |-> <<"get_identity_info is a dummy tool - no SailPoint API URL available">>]

\* SailPointAPI.get_identity: the placeholder result.
get_identity(user_id) ==
    [success |-> FALSE,
     message |-> <<"This is a placeholder - API endpoint not yet configured">>,
     user_id |-> user_id,
     note |-> <<"get_identity_info is a dummy tool - no SailPoint API URL available">>]

----------------------------------------------------------------------------
(* SailPointAPIClient, the facade (sailpoint_api.py) *)

\* SailPointAPIClient.__init__, lines 184-185: the attributes of a new
\* instance wrapping the object `api` refers to.
SailPointAPIClient_init(api, h) ==
    [_api |-> api, base_url |-> h[api].base_url]

\* The mutant of SailPointAPIClient_get_request_status that answers for the
\* facade itself instead of asking the wrapped client.
SailPointAPIClient_get_request_status_own(self, request_id) ==
    [success |-> FALSE, message |-> <<"Not available">>, request_id |-> request_id]

\* SailPointAPIClient.get_request_status, line 204, with `self` the facade's
\* attributes: `return self._api.get_request_status(request_id)`.
SailPointAPIClient_get_request_status(self, request_id) ==
    get_request_status(request_id)

\* SailPointAPIClient.get_identity, line 211.
SailPointAPIClient_get_identity(self, user_id) ==
    get_identity(user_id)

\* The methods the two classes define (what `dir` adds to the instance attributes).
SailPointAPI_methods ==
    {"_get_oauth_token", "_get_headers", "get_request_status", "trigger_refresh",
     "get_identity"}
SailPointAPIClient_methods == {"trigger_refresh", "get_request_status", "get_identity"}

\* The members of the object `ref` refers to: instance attributes and methods.
Members(ref, h) ==
    DOMAIN h[ref] \cup (IF ref = ApiRef THEN SailPointAPI_methods
                        ELSE SailPointAPIClient_methods)

----------------------------------------------------------------------------
(* The tool handlers (mcp_server.py) *)

\* Lines 66-70, 95-99, 124-128: the result when the facade slot is unset.
NotInitializedResult ==
    [success |-> FALSE,
     message |-> <<"SailPoint API not authenticated. Please check backend configuration.">>,
     error |-> <<"API instance not set">>]

\* mcp_server.check_request_status, with `api` the value of the facade slot:
\* the facade's get_request_status delegates to the client's.
check_request_status(api, h, request_id) ==
    IF api = NoneRef THEN NotInitializedResult
    ELSE SailPointAPIClient_get_request_status(h[api], request_id)

\* mcp_server.get_identity_info.
get_identity_info(api, h, user_id) ==
    IF api = NoneRef THEN NotInitializedResult
    ELSE SailPointAPIClient_get_identity(h[api], user_id)

----------------------------------------------------------------------------
(* The chat turn (main.py) *)

\* What a chat request can carry, and ChatMessage's default for user_id.
ChatBodies ==
    {[message |-> <<"Aaron.Nichols cannot log in">>],
     [message |-> <<"Aaron.Nichols cannot log in">>, user_id |-> <<"Bob">>]}
ChatMessage(body) ==
    [message |-> body.message, user_id |-> DictGet(body, "user_id", <<"anonymous">>)]

\* Lines 291-327: the tool definitions sent to the LLM, each with the names
\* of its parameters and of those that are required.
tools ==
    <<[name |-> <<"trigger_identity_refresh">>,
       properties |-> {"user_id", "reason"}, required |-> {"user_id"}],
      [name |-> <<"check_request_status">>,
       properties |-> {"request_id"}, required |-> {"request_id"}]>>

\* The mutant of tool_user_id that prefers the chat request's user id.
tool_user_id_request(function_args, message) ==
    IF message.user_id # <<"anonymous">> THEN message.user_id
    ELSE DictGet(function_args, "user_id", message.user_id)

\* Line 385: the user id handed to the tool, from the arguments or else
\* from the chat request.
tool_user_id(function_args, message) ==
    DictGet(function_args, "user_id", message.user_id)

\* What the LLM can answer: it raises, or returns a message with a content
\* and a list of tool calls, each a name and a JSON text of arguments.
ToolNames ==
    {<<"trigger_identity_refresh">>, <<"check_request_status">>,
     <<"get_identity_info">>, <<"delete_everything">>}
ArgFields ==
    [user_id |-> {<<"Ram">>}, reason |-> {<<"Approved but no access">>},
     request_id |-> {<<"REQ-1">>}]
ArgTexts == {ObjectJson(d) : d \in DictsOver(ArgFields)} \cup {InvalidJson, NonObjectJson}

\* The arguments a call of the tool `name` comes with: any of ArgTexts, and
\* for the refresh tool none or all of its own parameters, or no JSON object.
ArgTextsOf(name) ==
    IF name = <<"trigger_identity_refresh">>
    THEN {a \in ArgTexts : a.parse = "object" => DOMAIN a.data \in {{}, {"user_id", "reason"}}}
    ELSE ArgTexts
ToolCalls == {c \in [name : ToolNames, arguments : ArgTexts] : c.arguments \in ArgTextsOf(c.name)}

\* The tool calls that follow the first one in a reply with several.
MoreToolCalls ==
    <<[name |-> <<"get_identity_info">>, arguments |-> ObjectJson([user_id |-> <<"Eve">>])],
      [name |-> <<"trigger_identity_refresh">>, arguments |-> InvalidJson]>>
MaxToolCalls == 2
FollowingCalls(n) == [i \in 1..n |-> MoreToolCalls[((i - 1) % Len(MoreToolCalls)) + 1]]
ToolCallLists ==
    {<<>>} \cup {<<c>> \o FollowingCalls(n) : c \in ToolCalls, n \in 0..(MaxToolCalls - 1)}

\* A reply without tool calls has a content or none; one with tool calls has none.
LLMContents == {NoneVal, EmptyStr, <<"Please describe the access issue.">>}
LLMErrors == {<<"APIConnectionError">>, <<"AuthenticationError: invalid API key">>}
LLMReplies ==
    {[kind |-> "exception", text |-> e, content |-> NoneVal, tool_calls |-> <<>>] :
        e \in LLMErrors}
        \cup {[kind |-> "message", text |-> EmptyStr, content |-> c, tool_calls |-> <<>>] :
                c \in LLMContents}
        \cup {[kind |-> "message", text |-> EmptyStr, content |-> NoneVal, tool_calls |-> tcs] :
                tcs \in ToolCallLists \ {<<>>}}

\* json.dumps(d, indent=2) of a dict of strings: the keys in a fixed order.
DumpOrder == <<"status", "userId", "message", "taskStatus">>
RECURSIVE DumpItems(_, _, _)
DumpItems(d, i, first) ==
    IF i > Len(DumpOrder) THEN <<>>
    ELSE IF DumpOrder[i] \in DOMAIN d
         THEN (IF first THEN <<>> ELSE <<",\n">>)
                  \o <<"  \"", DumpOrder[i], "\": \"">> \o d[DumpOrder[i]] \o <<"\"">>
                  \o DumpItems(d, i + 1, FALSE)
         ELSE DumpItems(d, i + 1, first)
Dumps(d) ==
    IF DOMAIN d = {} THEN <<"{}">>
    ELSE <<"{\n">> \o DumpItems(d, 1, TRUE) \o <<"\n}">>

\* The mutant of format_refresh that leaves the SailPoint payload out of the text.
format_refresh_nopayload(action_result) ==
    LET sailpoint_data == DictGet(action_result, "sailpoint_response", EmptyDict)
        task_status ==
            DictGet(action_result, "task_status",
                    DictGet(sailpoint_data, "taskStatus", <<"Unknown">>))
        sailpoint_message ==
            DictGet(action_result, "message",
                    DictGet(sailpoint_data, "message", <<"Identity refresh triggered">>))
    IN  PyStr(sailpoint_message) \o <<"\n\nTask Status: ">> \o PyStr(task_status)
            \o <<"\n\n", "Please wait 2-3 minutes and try accessing the application again.">>

\* Lines 397-409: the reply text for trigger_identity_refresh.
format_refresh(action_result) ==
    LET sailpoint_data == DictGet(action_result, "sailpoint_response", EmptyDict)
        task_status ==
            DictGet(action_result, "task_status",
                    DictGet(sailpoint_data, "taskStatus", <<"Unknown">>))
        sailpoint_message ==
            DictGet(action_result, "message",
                    DictGet(sailpoint_data, "message", <<"Identity refresh triggered">>))
    IN  PyStr(sailpoint_message) \o <<"\n\nTask Status: ">> \o PyStr(task_status)
            \o <<"\n\n", "Please wait 2-3 minutes and try accessing the application again.">>
            \o <<"\n\nSailPoint IIQ API Response:\n">> \o Dumps(sailpoint_data)

\* Lines 416-418: the reply text for check_request_status.
format_status(action_result) ==
    LET sailpoint_data == DictGet(action_result, "sailpoint_response", EmptyDict)
    IN  <<"Request Status: ">> \o PyStr(DictGet(action_result, "status", <<"unknown">>))
            \o <<"\n\nSailPoint IIQ API Response:\n\n">> \o Dumps(sailpoint_data)

\* Lines 425-427: the reply text for get_identity_info.
format_identity(action_result) ==
    LET sailpoint_data == DictGet(action_result, "sailpoint_response", EmptyDict)
    IN  <<"Identity Information:\n\nSailPoint IIQ API Response:\n\n">>
            \o Dumps(sailpoint_data)

\* What the caller of /chat receives.
NoResponse ==
    [kind |-> "none", status_code |-> 0, response |-> NoneVal,
     action_taken |-> NoneVal, detail |-> NoneVal]
ChatResponse(response, action_taken) ==
    [kind |-> "response", status_code |-> HTTP_OK, response |-> response,
     action_taken |-> action_taken, detail |-> NoneVal]
HTTPException(status_code, detail) ==
    [kind |-> "error", status_code |-> status_code, response |-> NoneVal,
     action_taken |-> NoneVal, detail |-> detail]

\* Lines 440-449: len(llm_response) and ChatResponse(...) raise on None.
chat_respond(llm_response, action_taken) ==
    IF llm_response = NoneVal
    THEN Raise(<<"TypeError: object of type 'NoneType' has no len()">>)
    ELSE Return(ChatResponse(llm_response, action_taken))

\* Lines 451-465: the turn's `except Exception as e`.
chat_except(outcome) ==
    IF outcome.kind = "raise"
    THEN HTTPException(HTTP_SERVER_ERROR, <<"Error processing request: ">> \o outcome.value)
    ELSE outcome.value

----------------------------------------------------------------------------
(* State *)

\* The request handlers; Spec runs the turns of one of them one after another.
Threads == {"t1", "t2"}
SeqThreads == {"t1"}

\* An outbound call to the identity system as the turn's log keeps it: the
\* endpoint, the value of self.access_token read for the header (refresh
\* only), the Authorization header sent, and the reply once it is in.
B64(text) == <<"base64(">> \o text \o <<")">>
Pending == [kind |-> "pending", status_code |-> 0, json |-> InvalidJson, text |-> EmptyStr]
TokenCall(self) ==
    [ep |-> "token", bearer |-> NoneVal,
     authorization |-> <<"Basic ">> \o B64(self.client_id \o <<":">> \o self.client_secret),
     reply |-> Pending]
RefreshCall(self) ==
    [ep |-> "refresh", bearer |-> self.access_token,
     authorization |-> get_headers(self.access_token).Authorization,
     reply |-> Pending]
GotReply(calls, http) == [calls EXCEPT ![Len(calls)].reply = http]

NoOutcome == [kind |-> "none", value |-> NoneVal]
NoLLMReply == [kind |-> "none", text |-> EmptyStr, content |-> NoneVal, tool_calls |-> <<>>]
IdleTurn ==
    [pc |-> "idle",
     request |-> EmptyDict,     \* the body of the chat request
     message |-> [message |-> NoneVal, user_id |-> NoneVal],
     llm_calls |-> 0,           \* calls of groq_client.chat.completions.create
     tools |-> <<>>,            \* the tool definitions sent to the LLM
     llm |-> NoLLMReply,        \* the LLM's reply
     invoked |-> <<>>,          \* the tool handlers called, with their arguments
     action_result |-> EmptyDict,  \* what the tool handler returned
     user_id |-> NoneVal,       \* trigger_refresh's user_id
     entry_token |-> NoneVal,   \* self.access_token when trigger_refresh was entered
     calls |-> <<>>,            \* the outbound calls to the identity system
     outcome |-> NoOutcome,     \* how trigger_refresh ended
     response |-> NoResponse]   \* what the caller of /chat received

Init ==
    /\ boot = [pc |-> "import", reply |-> Pending]
    /\ groq_client = FALSE
    /\ main_api = NoneRef
    /\ mcp_api = NoneRef
    /\ heap = <<>>
    /\ th = [t \in Threads |-> IdleTurn]

Self == heap[ApiRef]

----------------------------------------------------------------------------
(* startup_event (main.py, lines 213-259) *)

\* Lines 227-242 up to the request SailPointAPI.__init__ sends to the token
\* endpoint: the Groq client is set when the key is there and the
\* constructor does not raise.
StartupBegin ==
    /\ boot.pc = "import"
    /\ \E key_set \in BOOLEAN, groq_ok \in BOOLEAN :
           groq_client' = (key_set /\ groq_ok)
    /\ heap' = (ApiRef :> SailPointAPI_init)
    /\ boot' = [boot EXCEPT !.pc = "token"]
    /\ UNCHANGED <<main_api, mcp_api, th>>

\* Lines 242-255 from the token endpoint's reply on.
StartupTokenReply ==
    /\ boot.pc = "token"
    /\ \E http \in TokenReplies :
           LET auth == get_oauth_token(Self.access_token, http)
               h1 == [heap EXCEPT ![ApiRef].access_token = auth.access_token]
           IN  /\ boot' = [pc |-> "serving", reply |-> http]
               /\ IF auth.kind = "raise"
                  THEN /\ heap' = h1
                       /\ UNCHANGED <<main_api, mcp_api>>
                  ELSE /\ heap' = h1 @@ (FacadeRef :> SailPointAPIClient_init(ApiRef, h1))
                       /\ main_api' = ApiRef
                       /\ mcp_api' = FacadeRef
    /\ UNCHANGED <<groq_client, th>>

----------------------------------------------------------------------------
(* trigger_refresh, from the tool handler down and back up to the reply *)

\* The mutant of trigger_refresh_enter that sends the refresh request
\* without the lazy authentication.
trigger_refresh_enter_nolazy(l, self, user_id) ==
    [l EXCEPT !.pc = "refresh_first", !.user_id = user_id,
              !.entry_token = self.access_token,
              !.calls = Append(@, RefreshCall(self))]

\* SailPointAPI.trigger_refresh, lines 78-90, up to its first outbound call:
\* the token request when no token is held, else the refresh request.
trigger_refresh_enter(l, self, user_id) ==
    IF ~Truthy(self.access_token)
    THEN [l EXCEPT !.pc = "token_lazy", !.user_id = user_id,
                   !.entry_token = self.access_token,
                   !.calls = Append(@, TokenCall(self))]
    ELSE [l EXCEPT !.pc = "refresh_first", !.user_id = user_id,
                   !.entry_token = self.access_token,
                   !.calls = Append(@, RefreshCall(self))]

\* SailPointAPIClient.trigger_refresh, line 197, up to the first outbound
\* call: `self._api.trigger_refresh(user_id)` with `self` the facade's attributes.
SailPointAPIClient_trigger_refresh_enter(l, self, h, user_id) ==
    trigger_refresh_enter(l, h[self._api], user_id)

\* SailPointAPIClient.trigger_refresh, line 197, from the wrapped client's
\* outcome on: `return` of what it returned, and nothing caught.
SailPointAPIClient_trigger_refresh_return(outcome) == outcome

\* The mutant of trigger_refresh_return that reports the action only when
\* the refresh succeeded.
trigger_refresh_return_onsuccess(l, outcome) ==
    LET handed == SailPointAPIClient_trigger_refresh_return(outcome)
    IN  [l EXCEPT !.pc = "done",
                  !.outcome = outcome,
                  !.action_result = IF handed.kind = "raise" THEN @ ELSE handed.value,
                  !.response =
                      chat_except(IF handed.kind = "raise" THEN handed
                                  ELSE chat_respond(format_refresh(handed.value),
                                           IF handed.value.success
                                           THEN <<"identity_refresh_triggered">>
                                           ELSE NoneVal))]

\* The way back: SailPointAPIClient.trigger_refresh (line 197) and
\* mcp_server.trigger_identity_refresh (lines 75-79) hand the result on as it
\* is, and chat formats it (main.py, lines 394-409 and 440-465).  `outcome`
\* is how SailPointAPI.trigger_refresh ended.
trigger_refresh_return(l, outcome) ==
    LET handed == SailPointAPIClient_trigger_refresh_return(outcome)
    IN  [l EXCEPT !.pc = "done",
                  !.outcome = outcome,
                  !.action_result = IF handed.kind = "raise" THEN @ ELSE handed.value,
                  !.response =
                      chat_except(IF handed.kind = "raise" THEN handed
                                  ELSE chat_respond(format_refresh(handed.value),
                                                    <<"identity_refresh_triggered">>))]

\* chat ends without having entered trigger_refresh.
\* The mutant of chat_return that asks the LLM again when the turn raised.
chat_return_again(l, outcome) ==
    IF outcome.kind = "raise"
    THEN [l EXCEPT !.pc = "llm", !.llm_calls = @ + 1]
    ELSE [l EXCEPT !.pc = "done", !.response = chat_except(outcome)]

\* Lines 434-465: the turn is over, with the response built or with the
\* HTTPException made of what was raised.
chat_return(l, outcome) ==
    [l EXCEPT !.pc = "done", !.response = chat_except(outcome)]

\* The mutant of selected_tool_call that takes the last tool call.
selected_tool_call_last(tool_calls) == tool_calls[Len(tool_calls)]

\* Line 374: the tool call the turn goes on with.
selected_tool_call(tool_calls) == tool_calls[1]

\* The mutant of load_arguments that goes on with no arguments when the
\* text is not a JSON object.
load_arguments_lenient(arguments) ==
    IF arguments.parse = "object" THEN Return(arguments.data) ELSE Return(EmptyDict)

\* Lines 376 and 385: json.loads of the arguments text, and `.get` on what
\* it gave: both raise inside the turn's try unless the text is a JSON object.
load_arguments(arguments) == ResponseJson([json |-> arguments])

\* The mutant of unknown_tool that fails the turn.
unknown_tool_fatal(l, function_name) ==
    chat_return([l EXCEPT !.action_result = [error |-> <<"Unknown tool">>]],
        Raise(<<"Unknown tool: ">> \o function_name))

\* Lines 429-432 and 440-449: the tool name is none of the three.
unknown_tool(l, function_name) ==
    chat_return([l EXCEPT !.action_result = [error |-> <<"Unknown tool">>]],
        chat_respond(<<"Tool '">> \o function_name \o <<"' not recognized">>, NoneVal))

\* main.chat, lines 366-449, from the LLM's reply to the next outbound call
\* or the end of the turn; `api` is mcp_server.sailpoint_api.
after_llm(l, llm, api, h) ==
    IF llm.kind = "exception" THEN chat_return(l, Raise(llm.text))
    ELSE IF llm.tool_calls = <<>> THEN chat_return(l, chat_respond(llm.content, NoneVal))
    ELSE
    LET tool_call == selected_tool_call(llm.tool_calls)
        function_name == tool_call.name
        loaded == load_arguments(tool_call.arguments)
        function_args == loaded.value
        user_id == tool_user_id(function_args, l.message)
        called(args, action_result) ==
            [l EXCEPT !.invoked = Append(@, [tool |-> function_name, args |-> args]),
                      !.action_result = action_result]
    IN  IF loaded.kind = "raise" THEN chat_return(l, loaded)
        ELSE CASE function_name = <<"trigger_identity_refresh">> ->
                    LET args == [user_id |-> user_id,
                                 reason |-> DictGet(function_args, "reason",
                                                    <<"User access issue">>)]
                    IN  IF api = NoneRef
                        THEN chat_return(called(args, NotInitializedResult),
                                 chat_respond(format_refresh(NotInitializedResult),
                                              <<"identity_refresh_triggered">>))
                        ELSE SailPointAPIClient_trigger_refresh_enter(
                                 called(args, EmptyDict), h[api], h, user_id)
               [] function_name = <<"check_request_status">> ->
                    LET action_result == check_request_status(api, h, user_id)
                    IN  chat_return(called([request_id |-> user_id], action_result),
                            chat_respond(format_status(action_result), <<"status_check">>))
               [] function_name = <<"get_identity_info">> ->
                    LET action_result == get_identity_info(api, h, user_id)
                    IN  chat_return(called([user_id |-> user_id], action_result),
                            chat_respond(format_identity(action_result), <<"identity_info">>))
               [] OTHER -> unknown_tool(l, function_name)

\* POST /chat, lines 273-364: the request comes in and the LLM is called,
\* unless the Groq client is not set.
ChatStart(t) ==
    /\ boot.pc = "serving"
    /\ th[t].pc = "idle"
    /\ \E body \in ChatBodies :
           th' = [th EXCEPT ![t] =
                     IF ~groq_client
                     THEN [IdleTurn EXCEPT
                              !.pc = "done", !.request = body,
                              !.message = ChatMessage(body),
                              !.response = HTTPException(HTTP_SERVER_ERROR,
                                               <<"LLM client not initialized">>)]
                     ELSE [IdleTurn EXCEPT
                              !.pc = "llm", !.request = body,
                              !.message = ChatMessage(body),
                              !.tools = tools, !.llm_calls = @ + 1]]
    /\ UNCHANGED <<boot, groq_client, main_api, mcp_api, heap>>

\* The LLM's reply comes in.
LLMReply(t) ==
    /\ th[t].pc = "llm"
    /\ \E llm \in LLMReplies :
           th' = [th EXCEPT ![t] =
                     after_llm([th[t] EXCEPT !.llm = llm], llm, mcp_api, heap)]
    /\ UNCHANGED <<boot, groq_client, main_api, mcp_api, heap>>

\* The reply to the lazy authentication of line 82 comes in; the refresh
\* request of line 90 leaves with the token then held.
TokenReplyLazy(t) ==
    /\ th[t].pc = "token_lazy"
    /\ \E http \in TokenReplies :
           LET auth == get_oauth_token(Self.access_token, http)
               h1 == [heap EXCEPT ![ApiRef].access_token = auth.access_token]
               l1 == [th[t] EXCEPT !.calls = GotReply(@, http)]
           IN  /\ heap' = h1
               /\ th' = [th EXCEPT ![t] =
                            IF auth.kind = "raise"
                            THEN trigger_refresh_return(l1, Raise(auth.value))
                            ELSE [l1 EXCEPT !.pc = "refresh_first",
                                            !.calls = Append(@, RefreshCall(h1[ApiRef]))]]
    /\ UNCHANGED <<boot, groq_client, main_api, mcp_api>>

\* The mutant of RefreshReplyFirst that drops the stored token as soon as a
\* 401 comes in.
RefreshReplyFirst_clears(t) ==
    /\ th[t].pc = "refresh_first"
    /\ \E http \in RefreshReplies, now \in Clock :
           LET l1 == [th[t] EXCEPT !.calls = GotReply(@, http)]
               next == on_first_reply(Self.base_url, l1.user_id, http, now)
           IN  /\ th' = [th EXCEPT ![t] =
                            IF next.kind = "reauth"
                            THEN [l1 EXCEPT !.pc = "token_reauth",
                                            !.calls = Append(@, TokenCall(Self))]
                            ELSE trigger_refresh_return(l1, next)]
               /\ heap' = IF next.kind = "reauth"
                          THEN [heap EXCEPT ![ApiRef].access_token = NoneVal]
                          ELSE heap
    /\ UNCHANGED <<boot, groq_client, main_api, mcp_api>>

\* The reply to the first refresh request comes in: the call is over, or
\* the token request of line 112 leaves.
RefreshReplyFirst(t) ==
    /\ th[t].pc = "refresh_first"
    /\ \E http \in RefreshReplies, now \in Clock :
           LET l1 == [th[t] EXCEPT !.calls = GotReply(@, http)]
               next == on_first_reply(Self.base_url, l1.user_id, http, now)
           IN  th' = [th EXCEPT ![t] =
                         IF next.kind = "reauth"
                         THEN [l1 EXCEPT !.pc = "token_reauth",
                                         !.calls = Append(@, TokenCall(Self))]
                         ELSE trigger_refresh_return(l1, next)]
    /\ UNCHANGED <<boot, groq_client, main_api, mcp_api, heap>>

\* The reply to the re-authentication of line 112 comes in; the retry of
\* line 114 leaves with the token then held.  Line 112 is inside the try.
TokenReplyReauth(t) ==
    /\ th[t].pc = "token_reauth"
    /\ \E http \in TokenReplies, now \in Clock :
           LET auth == get_oauth_token(Self.access_token, http)
               h1 == [heap EXCEPT ![ApiRef].access_token = auth.access_token]
               l1 == [th[t] EXCEPT !.calls = GotReply(@, http)]
           IN  /\ heap' = h1
               /\ th' = [th EXCEPT ![t] =
                            IF auth.kind = "raise"
                            THEN trigger_refresh_return(l1,
                                     Return(ExceptResult(l1.user_id, auth.value, now)))
                            ELSE [l1 EXCEPT !.pc = "refresh_retry",
                                            !.calls = Append(@, RefreshCall(h1[ApiRef]))]]
    /\ UNCHANGED <<boot, groq_client, main_api, mcp_api>>

\* The reply to the retry comes in: the call is over.  (on_retry_reply never
\* answers "reauth"; the branch is what a retry loop would take.)
RefreshReplyRetry(t) ==
    /\ th[t].pc = "refresh_retry"
    /\ \E http \in RefreshReplies, now \in Clock :
           LET l1 == [th[t] EXCEPT !.calls = GotReply(@, http)]
               next == on_retry_reply(Self.base_url, l1.user_id, http, now)
           IN  th' = [th EXCEPT ![t] =
                         IF next.kind = "reauth"
                         THEN [l1 EXCEPT !.pc = "token_reauth",
                                         !.calls = Append(@, TokenCall(Self))]
                         ELSE trigger_refresh_return(l1, next)]
    /\ UNCHANGED <<boot, groq_client, main_api, mcp_api, heap>>

\* The handler is free for the next request.
NextTurn(t) ==
    /\ th[t].pc = "done"
    /\ th' = [th EXCEPT ![t] = IdleTurn]
    /\ UNCHANGED <<boot, groq_client, main_api, mcp_api, heap>>

Next ==
    \/ StartupBegin
    \/ StartupTokenReply
    \/ \E t \in SeqThreads :
          \/ ChatStart(t)
          \/ LLMReply(t)
          \/ TokenReplyLazy(t)
          \/ RefreshReplyFirst(t)
          \/ TokenReplyReauth(t)
          \/ RefreshReplyRetry(t)
          \/ NextTurn(t)

Spec == Init /\ [][Next]_vars

\* The outbound call a turn is waiting for (the LLM, the token endpoint, the
\* refresh endpoint) returns or raises.
CallAnswered ==
    \E t \in SeqThreads :
        \/ LLMReply(t)
        \/ TokenReplyLazy(t)
        \/ RefreshReplyFirst(t)
        \/ TokenReplyReauth(t)
        \/ RefreshReplyRetry(t)

\* Every outbound call is eventually answered.  Nothing obliges a client to
\* send a request, nor the next one.
CallsAnswered == WF_vars(CallAnswered)

SpecAnswered == Spec /\ CallsAnswered

----------------------------------------------------------------------------
(* trigger_refresh called from several request handlers at once *)

\* The handlers run as threads on the one client: a thread can be switched
\* out between any two lines, so the presence check of line 80, the store
\* of the token in _get_oauth_token and the read of the token for the
\* headers (lines 88 and 114) are steps of their own.

\* Each thread makes one call, so that the logs of the threads are all that
\* has happened.
\* What the identity system answers here: the token endpoint issues tokB or
\* refuses, the refresh endpoint accepts or answers 401.  tokA is the token
\* startup got.
StartupToken == <<"tokA">>
ConcurrentTokenReplies ==
    {HttpResponse(HTTP_OK, ObjectJson([access_token |-> <<"tokB">>]), <<"token body">>),
     HttpResponse(HTTP_UNAUTHORIZED, InvalidJson, <<"error body">>)}
ConcurrentRefreshReplies ==
    {HttpResponse(HTTP_OK, ObjectJson([status |-> <<"success">>]), <<"refresh body">>),
     HttpResponse(HTTP_UNAUTHORIZED, InvalidJson, <<"error body">>)}
ConcurrentUserIds == [t1 |-> <<"Ram">>, t2 |-> <<"Bob">>]

\* Startup is over: the token endpoint issued tokA, the client and the
\* facade are installed, and no request is being handled.
InitConcurrent ==
    /\ boot = [pc |-> "serving",
               reply |-> HttpResponse(HTTP_OK, ObjectJson([access_token |-> StartupToken]),
                                      <<"token body">>)]
    /\ groq_client = TRUE
    /\ main_api = ApiRef
    /\ mcp_api = FacadeRef
    /\ heap = (ApiRef :> [SailPointAPI_init EXCEPT !.access_token = StartupToken])
                 @@ (FacadeRef :> [_api |-> ApiRef, base_url |-> SAILPOINT_API_URL])
    /\ th = [t \in Threads |-> IdleTurn]

\* mcp_server.trigger_identity_refresh (lines 64-75) calls the facade, which
\* calls SailPointAPI.trigger_refresh: the thread is at line 80.
CallRefresh(t) ==
    /\ th[t].pc = "idle"
    /\ mcp_api # NoneRef
    /\ th' = [th EXCEPT ![t] =
                 [IdleTurn EXCEPT
                     !.pc = "check", !.user_id = ConcurrentUserIds[t],
                     !.invoked = <<[tool |-> <<"trigger_identity_refresh">>,
                                    args |-> [user_id |-> ConcurrentUserIds[t],
                                              reason |-> <<"User access issue">>]]>>]]
    /\ UNCHANGED <<boot, groq_client, main_api, mcp_api, heap>>

\* Line 80, `if not self.access_token`: the token request of line 82 leaves
\* or the thread goes on to line 86.
PresenceCheck(t) ==
    /\ th[t].pc = "check"
    /\ th' = [th EXCEPT ![t] =
                 IF ~Truthy(Self.access_token)
                 THEN [@ EXCEPT !.pc = "token_lazy", !.entry_token = Self.access_token,
                                !.calls = Append(@, TokenCall(Self))]
                 ELSE [@ EXCEPT !.pc = "send_first", !.entry_token = Self.access_token]]
    /\ UNCHANGED <<boot, groq_client, main_api, mcp_api, heap>>

\* _get_oauth_token, lines 46-56, called from line 82 or line 112: the
\* reply comes in and self.access_token is stored.
TokenStored(t) ==
    /\ th[t].pc \in {"token_lazy", "token_reauth"}
    /\ \E http \in ConcurrentTokenReplies :
           LET auth == get_oauth_token(Self.access_token, http)
           IN  /\ heap' = [heap EXCEPT ![ApiRef].access_token = auth.access_token]
               /\ th' = [th EXCEPT ![t] =
                            [@ EXCEPT !.calls = GotReply(@, http),
                                      !.pc = IF th[t].pc = "token_lazy"
                                             THEN "send_first" ELSE "send_retry"]]
    /\ UNCHANGED <<boot, groq_client, main_api, mcp_api>>

\* The mutant of RefreshCallWith that sends the token the thread saw at its
\* presence check instead of reading self.access_token again.
RefreshCallWith_seen(self, l) ==
    [ep |-> "refresh", bearer |-> l.entry_token,
     authorization |-> get_headers(l.entry_token).Authorization,
     reply |-> Pending]

\* Lines 88 and 114, `headers = self._get_headers()`: the request of the
\* thread with the locals `l` is built from self.access_token as it is now.
RefreshCallWith(self, l) == RefreshCall(self)

\* Lines 86-90 and line 114: the headers are built from the token now
\* stored and the refresh request leaves.
SendRefresh(t) ==
    /\ th[t].pc \in {"send_first", "send_retry"}
    /\ th' = [th EXCEPT ![t] =
                 [@ EXCEPT !.calls = Append(@, RefreshCallWith(Self, th[t])),
                           !.pc = IF th[t].pc = "send_first"
                                  THEN "refresh_first" ELSE "refresh_retry"]]
    /\ UNCHANGED <<boot, groq_client, main_api, mcp_api, heap>>

\* Lines 90-111 and 138-154: the reply to the first refresh request.
ConcurrentFirstReply(t) ==
    /\ th[t].pc = "refresh_first"
    /\ \E http \in ConcurrentRefreshReplies, now \in Clock :
           LET l1 == [th[t] EXCEPT !.calls = GotReply(@, http)]
               next == on_first_reply(Self.base_url, l1.user_id, http, now)
           IN  th' = [th EXCEPT ![t] =
                         IF next.kind = "reauth"
                         THEN [l1 EXCEPT !.pc = "token_reauth",
                                         !.calls = Append(@, TokenCall(Self))]
                         ELSE trigger_refresh_return(l1, next)]
    /\ UNCHANGED <<boot, groq_client, main_api, mcp_api, heap>>

\* Lines 114-137 and 147-154: the reply to the retry.
ConcurrentRetryReply(t) ==
    /\ th[t].pc = "refresh_retry"
    /\ \E http \in ConcurrentRefreshReplies, now \in Clock :
           LET l1 == [th[t] EXCEPT !.calls = GotReply(@, http)]
               next == on_retry_reply(Self.base_url, l1.user_id, http, now)
           IN  th' = [th EXCEPT ![t] =
                         IF next.kind = "reauth"
                         THEN [l1 EXCEPT !.pc = "token_reauth",
                                         !.calls = Append(@, TokenCall(Self))]
                         ELSE trigger_refresh_return(l1, next)]
    /\ UNCHANGED <<boot, groq_client, main_api, mcp_api, heap>>

NextConcurrent ==
    \E t \in Threads :
        \/ CallRefresh(t)
        \/ PresenceCheck(t)
        \/ TokenStored(t)
        \/ SendRefresh(t)
        \/ ConcurrentFirstReply(t)
        \/ ConcurrentRetryReply(t)

SpecConcurrent == InitConcurrent /\ [][NextConcurrent]_vars

----------------------------------------------------------------------------
(* Reading a turn's log *)

RefreshCalls(calls) == SelectSeq(calls, LAMBDA c : c.ep = "refresh")
TokenCalls(calls) == SelectSeq(calls, LAMBDA c : c.ep = "token")
RefreshAt(calls) == {i \in DOMAIN calls : calls[i].ep = "refresh"}

Answered(http, code) == http.kind = "response" /\ http.status_code = code
AnsweredObject(http) == Answered(http, HTTP_OK) /\ http.json.parse = "object"

\* The token endpoint's reply carries a usable token.
IssuesToken(http) ==
    /\ AnsweredObject(http)
    /\ "access_token" \in DOMAIN http.json.data
    /\ Truthy(http.json.data.access_token)

\* trigger_refresh has returned a result to its caller.
Returned(l) == l.pc = "done" /\ l.outcome.kind = "return"

----------------------------------------------------------------------------
(* Claims *)

\* C1: in one trigger_refresh call, when the first refresh reply is 401 and
\* the retry's reply is 401 too, the call has returned a result with
\* success = False and has made exactly two refresh requests.
C1_TwoUnauthorizedFail ==
    \A t \in Threads :
        LET r == RefreshCalls(th[t].calls)
        IN  (/\ Len(r) >= 2
             /\ Answered(r[1].reply, HTTP_UNAUTHORIZED)
             /\ Answered(r[2].reply, HTTP_UNAUTHORIZED))
            => /\ Len(r) = 2
               /\ Returned(th[t])
               /\ th[t].outcome.value.success = FALSE

C1_Witness ==
    \E t \in Threads :
        LET r == RefreshCalls(th[t].calls)
        IN  /\ Len(r) = 2
            /\ Answered(r[1].reply, HTTP_UNAUTHORIZED)
            /\ Answered(r[2].reply, HTTP_UNAUTHORIZED)
            /\ Returned(th[t])

\* C2: in one trigger_refresh call, a second refresh request is sent only
\* after a 401 to the first; between that 401 and the retry the token
\* endpoint is called exactly once, and that call is answered before the
\* retry leaves; after the retry request the call makes no token request
\* and no refresh request.
C2_RetryOnlyAfter401 ==
    \A t \in Threads :
        LET c == th[t].calls
            at == RefreshAt(c)
        IN  /\ Cardinality(at) <= 2
            /\ Cardinality(at) = 2 =>
                  \E i \in at :
                      /\ at = {i, i + 2}
                      /\ Answered(c[i].reply, HTTP_UNAUTHORIZED)
                      /\ c[i + 1].ep = "token"
                      /\ c[i + 1].reply.kind # "pending"
                      /\ Len(c) = i + 2

C2_Witness ==
    \E t \in Threads :
        /\ Cardinality(RefreshAt(th[t].calls)) = 2
        /\ th[t].pc = "done"
        /\ th[t].calls[Len(th[t].calls)].reply.kind = "exception"

\* C3 as claimed: one chat turn calls the LLM at most once and makes at most
\* two outbound HTTP calls to the identity system, token endpoint included.
C3_AtMostTwoIdentityCalls ==
    \A t \in Threads : th[t].llm_calls <= 1 /\ Len(th[t].calls) <= 2

\* C3 as amended: one chat turn calls the LLM at most once, the refresh
\* endpoint at most twice and the token endpoint at most twice.
C3_AtMostTwoPerEndpoint ==
    \A t \in Threads :
        /\ th[t].llm_calls <= 1
        /\ Len(RefreshCalls(th[t].calls)) <= 2
        /\ Len(TokenCalls(th[t].calls)) <= 2

C3_Witness ==
    \E t \in Threads :
        /\ th[t].llm_calls = 1
        /\ Len(RefreshCalls(th[t].calls)) = 2
        /\ Len(TokenCalls(th[t].calls)) = 2
        /\ th[t].pc = "done"

\* C4 as claimed: every refresh request of a turn, the first and the retry,
\* is sent with a present access token.
C4_RefreshCarriesToken ==
    \A t \in Threads :
        \A i \in RefreshAt(th[t].calls) : Truthy(th[t].calls[i].bearer)

\* The attributes whose value is a reference to another object.
ReferenceAttributes == {"_api"}

\* Every member name code holding `ref` can reach: the object's own members
\* and those of the objects its reference attributes lead to.
ReachableMembers(ref, h) ==
    Members(ref, h)
        \cup UNION {Members(h[ref][a], h) : a \in DOMAIN h[ref] \cap ReferenceAttributes}

\* C5 as claimed: all that can be reached from the installed facade is
\* trigger_refresh, get_request_status, get_identity and the base URL.
C5_FacadeExposesOnlyDomain ==
    mcp_api # NoneRef =>
        ReachableMembers(mcp_api, heap)
            \subseteq {"trigger_refresh", "get_request_status", "get_identity", "base_url"}

\* C6: when the first refresh reply is a 200 whose body is a JSON object,
\* trigger_refresh returns success = (body.status == "success"), user_id =
\* body.userId when the body has one and the requested user_id otherwise,
\* and the whole body as sailpoint_response.
C6_FirstTry200Result ==
    \A t \in Threads :
        LET r == RefreshCalls(th[t].calls)
        IN  (Len(r) >= 1 /\ AnsweredObject(r[1].reply)) =>
                LET body == r[1].reply.json.data
                    result == th[t].outcome.value
                IN  /\ Returned(th[t])
                    /\ result.success =
                           ("status" \in DOMAIN body /\ body.status = <<"success">>)
                    /\ result.user_id =
                           (IF "userId" \in DOMAIN body THEN body.userId ELSE th[t].user_id)
                    /\ result.sailpoint_response = body

C6_Witness ==
    \E t \in Threads :
        LET r == RefreshCalls(th[t].calls)
        IN  /\ Len(r) = 1
            /\ AnsweredObject(r[1].reply)
            /\ DOMAIN r[1].reply.json.data = {"status", "userId"}
            /\ r[1].reply.json.data.status = <<"success">>
            /\ r[1].reply.json.data.userId # th[t].user_id
            /\ Returned(th[t])

\* A result without its timestamp.
WithoutTimestamp(result) == [k \in DOMAIN result \ {"timestamp"} |-> result[k]]

\* C7: when the first refresh reply is 401 and the retry's reply is a 200
\* whose body is a JSON object, the result has the fields, and apart from
\* the timestamp the values, of the result a first-try 200 with the same
\* body gives for the same user_id.
C7_RetryResultSameShape ==
    \A t \in Threads :
        LET r == RefreshCalls(th[t].calls)
        IN  (Len(r) = 2 /\ AnsweredObject(r[2].reply)) =>
                /\ Returned(th[t])
                /\ \E now \in Clock :
                      LET first == FirstTryResult(Self.base_url, th[t].user_id,
                                                  r[2].reply.json.data, now)
                      IN  /\ DOMAIN th[t].outcome.value = DOMAIN first
                          /\ WithoutTimestamp(th[t].outcome.value) = WithoutTimestamp(first)

C7_Witness ==
    \E t \in Threads :
        LET c == th[t].calls
        IN  /\ Len(c) = 3
            /\ c[1].ep = "refresh" /\ Answered(c[1].reply, HTTP_UNAUTHORIZED)
            /\ c[2].ep = "token" /\ IssuesToken(c[2].reply)
            /\ c[3].ep = "refresh" /\ AnsweredObject(c[3].reply)
            /\ c[3].reply.json.data = [status |-> <<"success">>]
            /\ Returned(th[t])

\* An attempt to authenticate that leaves no token: the token endpoint's
\* reply is in and carries none.
AuthenticationFailed(call) ==
    call.ep = "token" /\ call.reply.kind # "pending" /\ ~IssuesToken(call.reply)

\* C8 as claimed: a trigger_refresh call that is over has returned, not
\* raised, and it has returned success = False with the status or the
\* exception text in its message when its last refresh reply was a status
\* other than 200, a transport exception or a 200 that does not parse to an
\* object, and success = False when the lazy or the repeated authentication
\* failed.
C8_FailuresReturnFalse ==
    \A t \in Threads :
        (th[t].pc = "done" /\ th[t].calls # <<>>) =>
            LET c == th[t].calls
                last == c[Len(c)].reply
                result == th[t].outcome.value
            IN  /\ th[t].outcome.kind = "return"
                /\ (last.kind = "exception") =>
                       (result.success = FALSE /\ result.message = last.text)
                /\ (last.kind = "response" /\ last.status_code # HTTP_OK) =>
                       (/\ result.success = FALSE
                        /\ Contains(result.message, <<ToString(last.status_code)>>))
                /\ (Answered(last, HTTP_OK) /\ ~AnsweredObject(last)) =>
                       (result.success = FALSE /\ result.message = ResponseJson(last).value)
                /\ (\E i \in DOMAIN c : AuthenticationFailed(c[i])) =>
                       result.success = FALSE

\* The value of self.access_token.
AccessToken(h) == h[ApiRef].access_token

\* What C9 says of one run of _get_oauth_token: `http` is the token
\* endpoint's reply, `token` the stored token afterwards.
AuthPostcondition(http, token) ==
    /\ Truthy(token) =>
          (/\ AnsweredObject(http)
           /\ "access_token" \in DOMAIN http.json.data
           /\ http.json.data.access_token = token)
    /\ (http.kind = "exception" \/ http.status_code # HTTP_OK) => token = NoneVal

\* C9: _get_oauth_token never raises (its caller goes on to the next line:
\* startup installs the facade, trigger_refresh sends the refresh request),
\* and afterwards the stored token is present only if the token endpoint
\* answered 200 with that access_token; after a reply other than 200 or a
\* transport failure it is None, whatever was stored before.
C9_AuthenticateNeverRaises ==
    [][/\ (boot.pc = "token" /\ boot'.pc = "serving") =>
            (/\ AuthPostcondition(boot'.reply, AccessToken(heap'))
             /\ mcp_api' = FacadeRef)
       /\ \A t \in Threads :
            (th[t].pc \in {"token_lazy", "token_reauth"} /\ th'[t].pc # th[t].pc) =>
                (/\ AuthPostcondition(th'[t].calls[Len(th[t].calls)].reply,
                                      AccessToken(heap'))
                 /\ th'[t].pc \in {"refresh_first", "refresh_retry"})
      ]_vars

C9_Witness ==
    \E t \in Threads :
        LET c == th[t].calls
        IN  /\ th[t].pc = "refresh_retry"
            /\ Truthy(th[t].entry_token)
            /\ Answered(c[2].reply, HTTP_UNAUTHORIZED)
            /\ AccessToken(heap) = NoneVal

C11_FacadeWrapsAuthenticated ==
    [][(mcp_api = NoneRef /\ mcp_api' # NoneRef) =>
          Truthy(heap'[heap'[mcp_api']._api].access_token)]_vars

\* The turns that called the tool handler `name`.
Invoked(l, name) == \E i \in DOMAIN l.invoked : l.invoked[i].tool = name

PlaceholderTools == {<<"check_request_status">>, <<"get_identity_info">>}
PlaceholderMessage == <<"This is a placeholder - API endpoint not yet configured">>

\* C12: with the facade installed, a turn that called check_request_status
\* or get_identity_info got from get_request_status or get_identity a
\* result with success = False and the one placeholder message, whatever
\* the argument and whatever the stored token, and has made no outbound
\* call to the identity system; and the step that runs the handler leaves
\* every object's attributes, the stored access token among them, as they were.
C12_PlaceholdersFixedFailure ==
    /\ [](\A t \in Threads : \A i \in DOMAIN th[t].invoked :
            (th[t].invoked[i].tool \in PlaceholderTools /\ mcp_api # NoneRef) =>
                /\ th[t].action_result.success = FALSE
                /\ th[t].action_result.message = PlaceholderMessage
                /\ th[t].calls = <<>>)
    /\ [][\A t \in Threads :
            (th[t].invoked = <<>> /\ \E name \in PlaceholderTools : Invoked(th'[t], name))
                => heap' = heap]_vars

C12_Witness ==
    \E t \in Threads :
        /\ Invoked(th[t], <<"get_identity_info">>)
        /\ th[t].invoked[1].args.user_id = <<"Ram">>
        /\ th[t].action_result.success = FALSE
        /\ AccessToken(heap) = NoneVal
        /\ th[t].pc = "done"

\* The identifiers the operations are compared on.
ComparedIds == {<<"Ram">>, <<"Bob">>, <<"anonymous">>, <<"REQ-1">>, NoneVal}

\* C13: with the facade installed, it wraps the client startup constructed,
\* and each of its three operations does what the client's does: for every
\* argument get_request_status and get_identity return the client's
\* result; trigger_refresh starts with the outbound call the client's
\* starts with on the client's state, and returns the client's outcome, a
\* raised exception included, as it is.  Seen from a turn: the handler's
\* result is the client's result for the argument the handler was called
\* with, the refresh ran for that argument, and its first outbound call is
\* the token request exactly when the client held no token.
C13_FacadeDelegates ==
    mcp_api # NoneRef =>
        LET facade == heap[mcp_api]
            client == heap[facade._api]
        IN  /\ facade._api = main_api
            /\ \A x \in ComparedIds :
                  /\ SailPointAPIClient_get_request_status(facade, x) = get_request_status(x)
                  /\ SailPointAPIClient_get_identity(facade, x) = get_identity(x)
                  /\ \A t \in Threads :
                        SailPointAPIClient_trigger_refresh_enter(th[t], facade, heap, x)
                            = trigger_refresh_enter(th[t], client, x)
            /\ \A t \in Threads :
                  /\ \A o \in {th[t].outcome, Raise(<<"RuntimeError">>)} :
                        SailPointAPIClient_trigger_refresh_return(o) = o
                  /\ \A i \in DOMAIN th[t].invoked :
                        LET call == th[t].invoked[i]
                        IN  CASE call.tool = <<"check_request_status">> ->
                                   /\ th[t].action_result
                                          = get_request_status(call.args.request_id)
                                   /\ th[t].calls = <<>>
                              [] call.tool = <<"get_identity_info">> ->
                                   /\ th[t].action_result = get_identity(call.args.user_id)
                                   /\ th[t].calls = <<>>
                              [] OTHER ->
                                   /\ th[t].user_id = call.args.user_id
                                   /\ (th[t].calls[1].ep = "token") = ~Truthy(th[t].entry_token)
                                   /\ th[t].pc = "done" =>
                                          (/\ Returned(th[t])
                                           /\ th[t].action_result = th[t].outcome.value)

C13_Witness ==
    \E t \in Threads :
        /\ mcp_api = FacadeRef
        /\ Invoked(th[t], <<"trigger_identity_refresh">>)
        /\ Len(th[t].calls) = 4
        /\ Returned(th[t])
        /\ th[t].action_result.success = TRUE

\* The turn is over and the LLM had answered with a message.
Dispatched(l) == l.pc = "done" /\ l.llm.kind = "message"

\* C14 as claimed: a turn whose LLM reply contains no tool call ends in a
\* normal response whose text is the reply's content and whose action_taken
\* is absent, with no tool handler called and no call to the identity system.
C14_DirectReplyVerbatim ==
    \A t \in Threads :
        (Dispatched(th[t]) /\ th[t].llm.tool_calls = <<>>) =>
            /\ th[t].response.kind = "response"
            /\ th[t].response.response = th[t].llm.content
            /\ th[t].response.action_taken = NoneVal
            /\ th[t].invoked = <<>>
            /\ th[t].calls = <<>>

\* The names the dispatcher has a branch for (lines 388, 411 and 420).
RegisteredTools ==
    {<<"trigger_identity_refresh">>, <<"check_request_status">>, <<"get_identity_info">>}

\* The first tool call of the turn's LLM reply, when it has one.
HasToolCall(l) == Dispatched(l) /\ l.llm.tool_calls # <<>>
FirstToolCall(l) == l.llm.tool_calls[1]

\* The turn ended in a normal response saying the tool is not recognized.
SaysNotRecognized(l) ==
    /\ l.response.kind = "response"
    /\ l.response.response = <<"Tool '">> \o FirstToolCall(l).name \o <<"' not recognized">>
    /\ l.response.action_taken = NoneVal

\* C15 as claimed: a turn whose first tool call names none of the three
\* registered tools ends in a normal response saying the tool is not
\* recognized, action_taken absent, and no tool handler is called, whatever
\* the tool call's arguments are.
C15_UnknownToolAnyArguments ==
    \A t \in Threads :
        (HasToolCall(th[t]) /\ FirstToolCall(th[t]).name \notin RegisteredTools) =>
            (SaysNotRecognized(th[t]) /\ th[t].invoked = <<>>)

\* C15 as amended: the same when the tool call's arguments are the text of
\* a JSON object; no tool handler is called whatever the arguments are.
C15_UnknownToolObjectArguments ==
    \A t \in Threads :
        (HasToolCall(th[t]) /\ FirstToolCall(th[t]).name \notin RegisteredTools) =>
            /\ FirstToolCall(th[t]).arguments.parse = "object" => SaysNotRecognized(th[t])
            /\ th[t].invoked = <<>>
            /\ th[t].calls = <<>>

C15_Witness ==
    \E t \in Threads :
        /\ HasToolCall(th[t])
        /\ FirstToolCall(th[t]) =
              [name |-> <<"delete_everything">>,
               arguments |-> ObjectJson([user_id |-> <<"Ram">>])]
        /\ Len(th[t].llm.tool_calls) = 2
        /\ SaysNotRecognized(th[t])

\* C16: a turn whose first tool call's arguments are not valid JSON ends in
\* an error response, with no tool handler called, no call to the identity
\* system and the one call of the LLM.
C16_MalformedArgumentsFatal ==
    \A t \in Threads :
        (HasToolCall(th[t]) /\ FirstToolCall(th[t]).arguments.parse = "invalid") =>
            /\ th[t].response.kind = "error"
            /\ th[t].response.status_code = HTTP_SERVER_ERROR
            /\ th[t].invoked = <<>>
            /\ th[t].calls = <<>>
            /\ th[t].llm_calls = 1

C16_Witness ==
    \E t \in Threads :
        /\ HasToolCall(th[t])
        /\ FirstToolCall(th[t]) =
              [name |-> <<"trigger_identity_refresh">>, arguments |-> InvalidJson]
        /\ th[t].response.kind = "error"
        /\ Truthy(AccessToken(heap))

\* An LLM reply cut down to its first tool call.
FirstOnly(llm) == [llm EXCEPT !.tool_calls = <<@[1]>>]

\* C17: a turn calls at most one tool handler, and the one it calls is the
\* one the first tool call of the LLM's reply names, each argument it gets
\* being a value of the first tool call's arguments or else the request's
\* user id or the default reason, never another tool call's; and the step that
\* takes a reply with tool calls leaves the turn and every other part of
\* the state exactly as the same reply with only its first tool call would.
C17_OnlyFirstToolCall ==
    /\ [](\A t \in Threads :
            /\ Len(th[t].invoked) <= 1
            /\ th[t].invoked # <<>> =>
                  LET first == th[t].llm.tool_calls[1]
                      args == th[t].invoked[1].args
                  IN  /\ th[t].invoked[1].tool = first.name
                      /\ first.arguments.parse = "object"
                      /\ \A k \in DOMAIN args :
                            args[k] \in {first.arguments.data[f] : f \in DOMAIN first.arguments.data}
                                           \cup {th[t].message.user_id, <<"User access issue">>})
    /\ [][\A t \in Threads :
            (th[t].pc = "llm" /\ th'[t].pc # "llm" /\ th'[t].llm.tool_calls # <<>>) =>
                LET first == FirstOnly(th'[t].llm)
                IN  /\ [th'[t] EXCEPT !.llm = first]
                          = after_llm([th[t] EXCEPT !.llm = first], first, mcp_api, heap)
                    /\ <<boot, groq_client, main_api, mcp_api, heap>>'
                          = <<boot, groq_client, main_api, mcp_api, heap>>]_vars

C17_Witness ==
    \E t \in Threads :
        /\ Len(th[t].llm.tool_calls) = 2
        /\ th[t].llm.tool_calls[1].name = <<"trigger_identity_refresh">>
        /\ th[t].llm.tool_calls[2].name = <<"get_identity_info">>
        /\ Len(th[t].invoked) = 1
        /\ th[t].invoked[1] =
              [tool |-> <<"trigger_identity_refresh">>,
               args |-> [user_id |-> <<"Ram">>, reason |-> <<"Approved but no access">>]]
        /\ Returned(th[t])

\* C18 as claimed: the handler a turn calls gets the tool call's own
\* arguments: trigger_identity_refresh and get_identity_info the tool
\* call's user_id as user_id, check_request_status the tool call's
\* request_id as request_id.
C18_HandlerGetsOwnArguments ==
    \A t \in Threads : \A i \in DOMAIN th[t].invoked :
        LET given == FirstToolCall(th[t]).arguments.data
            args == th[t].invoked[i].args
        IN  IF th[t].invoked[i].tool = <<"check_request_status">>
            THEN "request_id" \in DOMAIN given => args.request_id = given.request_id
            ELSE "user_id" \in DOMAIN given => args.user_id = given.user_id

\* The user identifier a handler was called with: its user_id, and for
\* check_request_status its one parameter.
PassedUserId(call) ==
    IF "user_id" \in DOMAIN call.args THEN call.args.user_id ELSE call.args.request_id

\* C19: the user identifier passed to the handler a turn calls is the
\* user_id of the tool call's arguments when they have one, and otherwise
\* the user_id of the chat request, "anonymous" when the request has none.
C19_UserIdFallback ==
    \A t \in Threads : \A i \in DOMAIN th[t].invoked :
        LET given == FirstToolCall(th[t]).arguments.data
            declared == IF "user_id" \in DOMAIN th[t].request
                        THEN th[t].request.user_id ELSE <<"anonymous">>
        IN  PassedUserId(th[t].invoked[i]) =
                (IF "user_id" \in DOMAIN given THEN given.user_id ELSE declared)

C19_Witness ==
    \E t \in Threads :
        /\ "user_id" \notin DOMAIN th[t].request
        /\ th[t].llm.tool_calls =
              <<[name |-> <<"get_identity_info">>,
                 arguments |-> ObjectJson([request_id |-> <<"REQ-1">>])]>>
        /\ th[t].invoked = <<[tool |-> <<"get_identity_info">>,
                              args |-> [user_id |-> <<"anonymous">>]]>>
        /\ th[t].pc = "done"

\* The tool descriptors of the specification: the name, the parameters and
\* which of them are required.
ToolDescriptors ==
    {[name |-> <<"trigger_identity_refresh">>,
      properties |-> {"user_id", "reason"}, required |-> {"user_id"}],
     [name |-> <<"check_request_status">>,
      properties |-> {"request_id"}, required |-> {"request_id"}],
     [name |-> <<"get_identity_info">>,
      properties |-> {"user_id"}, required |-> {"user_id"}]}

\* C20 as claimed: the tool list a turn sends to the LLM holds exactly the
\* three tool descriptors, and every tool handler a turn calls is of a
\* tool named in the list it sent.
C20_ToolListMatchesDescriptors ==
    \A t \in Threads :
        th[t].llm_calls > 0 =>
            /\ {th[t].tools[i] : i \in DOMAIN th[t].tools} = ToolDescriptors
            /\ Len(th[t].tools) = Cardinality(ToolDescriptors)
            /\ \A i \in DOMAIN th[t].invoked :
                  \E j \in DOMAIN th[t].tools :
                      th[t].tools[j].name = th[t].invoked[i].tool

WaitHint == <<"Please wait 2-3 minutes and try accessing the application again.">>

\* The text shows the dict `d` pretty-printed: each key with its value on a
\* line of its own, indented, or {} when the dict is empty.
ShowsPretty(text, d) ==
    /\ \A k \in DOMAIN d :
          \E before \in {"{\n", ",\n"} :
              Contains(text, <<before, "  \"", k, "\": \"">> \o d[k] \o <<"\"">>)
    /\ DOMAIN d = {} => Contains(text, <<"{}">>)

\* C21: a turn that called trigger_identity_refresh and whose handler
\* returned a result with a message, a task_status and a sailpoint_response
\* ends in a normal response whose text contains that message, that task
\* status, the wait-time hint and the payload pretty-printed, with
\* action_taken = "identity_refresh_triggered".
C21_RefreshResponseText ==
    \A t \in Threads :
        (/\ th[t].pc = "done"
         /\ Invoked(th[t], <<"trigger_identity_refresh">>)
         /\ {"message", "task_status", "sailpoint_response"} \subseteq DOMAIN th[t].action_result) =>
            LET result == th[t].action_result
                text == th[t].response.response
            IN  /\ th[t].response.kind = "response"
                /\ Contains(text, result.message)
                /\ Contains(text, result.task_status)
                /\ Contains(text, WaitHint)
                /\ ShowsPretty(text, result.sailpoint_response)
                /\ th[t].response.action_taken = <<"identity_refresh_triggered">>

C21_Witness ==
    \E t \in Threads :
        /\ th[t].pc = "done"
        /\ Invoked(th[t], <<"trigger_identity_refresh">>)
        /\ "sailpoint_response" \in DOMAIN th[t].action_result
        /\ th[t].action_result.success = TRUE
        /\ th[t].action_result.message = <<"Refresh started">>
        /\ th[t].action_result.task_status = <<"Queued">>
        /\ DOMAIN th[t].action_result.sailpoint_response
              = {"status", "userId", "message", "taskStatus"}

\* The turn ended because the call of the LLM raised.
LLMRaised(l) == l.pc = "done" /\ l.llm.kind = "exception"

\* The turn `l` as it was when the LLM was called, and as it would have
\* ended had the LLM raised with the text `e` instead.
BeforeLLMReply(l) == [l EXCEPT !.pc = "llm", !.llm = NoLLMReply, !.response = NoResponse]
HadLLMRaised(l, e, api, h) ==
    LET llm == [kind |-> "exception", text |-> e, content |-> NoneVal, tool_calls |-> <<>>]
    IN  after_llm([BeforeLLMReply(l) EXCEPT !.llm = llm], llm, api, h)

\* C22 as claimed: a turn in which the call of the LLM raised, or whose tool
\* arguments did not parse, ends in a server-error response; the payload
\* does not carry the exception's text, and a turn that differs only in the
\* text the LLM call raised with gives the caller the same payload.
C22_GenericErrorPayload ==
    \A t \in Threads :
        /\ (HasToolCall(th[t]) /\ load_arguments(FirstToolCall(th[t]).arguments).kind = "raise") =>
              /\ th[t].response.kind = "error"
              /\ th[t].response.status_code = HTTP_SERVER_ERROR
              /\ ~Contains(th[t].response.detail,
                           load_arguments(FirstToolCall(th[t]).arguments).value)
        /\ LLMRaised(th[t]) =>
              /\ th[t].response.kind = "error"
              /\ th[t].response.status_code = HTTP_SERVER_ERROR
              /\ ~Contains(th[t].response.detail, th[t].llm.text)
              /\ \A e \in LLMErrors :
                    HadLLMRaised(th[t], e, mcp_api, heap).response = th[t].response

\* The identity system has behaved as C23 supposes: every answered token
\* request was issued a token, and every answered refresh request got 401
\* when it carried the stale token (the one startup got) and 200 when it
\* carried a token issued since.
AnsweredCalls(l) == {i \in DOMAIN l.calls : l.calls[i].reply.kind # "pending"}
StaleOnlyRejected ==
    \A t \in Threads : \A i \in AnsweredCalls(th[t]) :
        LET call == th[t].calls[i]
        IN  IF call.ep = "token" THEN IssuesToken(call.reply)
            ELSE IF call.bearer = StartupToken THEN Answered(call.reply, HTTP_UNAUTHORIZED)
            ELSE Answered(call.reply, HTTP_OK)

UsedStaleToken(l) == \E i \in RefreshAt(l.calls) : l.calls[i].bearer = StartupToken

\* C23: with the calls of two threads interleaved in any way and the
\* identity system behaving as supposed, no call makes more than two
\* refresh requests, and a call that sent the stale token and is over has
\* authenticated once, retried once and returned the result of a 200:
\* the payload as sailpoint_response and success as the payload says.
C23_StaleTokenSelfCorrects ==
    StaleOnlyRejected =>
        \A t \in Threads :
            /\ Len(RefreshCalls(th[t].calls)) <= 2
            /\ (th[t].pc = "done" /\ UsedStaleToken(th[t])) =>
                  LET r == RefreshCalls(th[t].calls)
                  IN  /\ Len(r) = 2
                      /\ Len(TokenCalls(th[t].calls)) = 1
                      /\ AnsweredObject(r[2].reply)
                      /\ Returned(th[t])
                      /\ th[t].outcome.value.sailpoint_response = r[2].reply.json.data
                      /\ th[t].outcome.value.success = TRUE

C23_Witness ==
    /\ StaleOnlyRejected
    /\ \A t \in Threads :
          /\ th[t].pc = "done"
          /\ UsedStaleToken(th[t])
          /\ Returned(th[t])

\* The refresh request `i` of the call `l` was sent by a call that had found
\* the token present at its presence check, or had just been issued one.
SentAfterTokenSeen(l, i) ==
    IF i = 1 THEN Truthy(l.entry_token)
    ELSE l.calls[i - 1].ep = "token" /\ IssuesToken(l.calls[i - 1].reply)

\* C24 as claimed: with the calls of two threads interleaved in any way, a
\* refresh request sent by a call that found the token present at its
\* presence check, or that has just re-authenticated successfully, carries
\* a present token.
C24_NoTokenMidReplacement ==
    \A t \in Threads : \A i \in RefreshAt(th[t].calls) :
        SentAfterTokenSeen(th[t], i) => Truthy(th[t].calls[i].bearer)

\* A step in which a reply of the token endpoint is taken, that is, in
\* which _get_oauth_token runs to its end.
AuthenticateStep ==
    \/ boot.pc = "token" /\ boot'.pc # "token"
    \/ \E t \in Threads :
          th[t].pc \in {"token_lazy", "token_reauth"} /\ th'[t].pc # th[t].pc

\* C25: the stored access token changes only in a step of the authenticate
\* routine; a trigger_refresh entered with the token present whose first
\* reply is not a 401 has made no token request and the token is the one
\* it was entered with; and after a 401, while the re-authentication is
\* under way, the token is still the one the request was sent with.
C25_TokenChangesOnlyInAuthenticate ==
    /\ [][(ApiRef \in DOMAIN heap /\ AccessToken(heap') # AccessToken(heap))
            => AuthenticateStep]_vars
    /\ [](\A t \in Threads :
            LET c == th[t].calls
            IN  /\ (/\ Truthy(th[t].entry_token)
                     /\ c # <<>>
                     /\ c[1].reply.kind # "pending"
                     /\ ~Answered(c[1].reply, HTTP_UNAUTHORIZED)) =>
                        (/\ Len(c) = 1
                         /\ c[1].ep = "refresh"
                         /\ th[t].pc = "done"
                         /\ AccessToken(heap) = th[t].entry_token)
                /\ (th[t].pc = "token_reauth") =>
                        (/\ Answered(c[Len(c) - 1].reply, HTTP_UNAUTHORIZED)
                         /\ AccessToken(heap) = c[Len(c) - 1].bearer))

C25_Witness ==
    \E t \in Threads :
        /\ Truthy(th[t].entry_token)
        /\ Len(th[t].calls) = 1
        /\ th[t].calls[1].reply.kind = "exception"
        /\ th[t].pc = "done"
        /\ AccessToken(heap) = th[t].entry_token

\* The action_taken that goes with an LLM reply, by the name of its first
\* tool call alone.
ActionFor(llm) ==
    IF llm.tool_calls = <<>> THEN NoneVal
    ELSE CASE llm.tool_calls[1].name = <<"trigger_identity_refresh">> ->
                  <<"identity_refresh_triggered">>
           [] llm.tool_calls[1].name = <<"check_request_status">> -> <<"status_check">>
           [] llm.tool_calls[1].name = <<"get_identity_info">> -> <<"identity_info">>
           [] OTHER -> NoneVal

\* The turn `l` as it would have ended had the facade not been installed.
HadNoFacade(l, h) ==
    LET before == [IdleTurn EXCEPT !.pc = "llm", !.request = l.request,
                                    !.message = l.message, !.tools = l.tools,
                                    !.llm_calls = l.llm_calls, !.llm = l.llm]
    IN  after_llm(before, l.llm, NoneRef, h)

\* C26: in every normal response of a turn action_taken is what goes with
\* the name of the first tool call, absent when there is none or the name
\* is not a tool's, whatever the handler's result; and the turn would have
\* given the same action_taken had the facade not been installed, in
\* which case the handler returns a failure without any outbound call.
C26_ActionTakenByToolName ==
    \A t \in Threads :
        (Dispatched(th[t]) /\ th[t].response.kind = "response") =>
            /\ th[t].response.action_taken = ActionFor(th[t].llm)
            /\ th[t].response.action_taken
                  \in {NoneVal, <<"identity_refresh_triggered">>, <<"status_check">>,
                       <<"identity_info">>}
            /\ LET other == HadNoFacade(th[t], heap)
               IN  /\ other.pc = "done"
                   /\ other.calls = <<>>
                   /\ other.response.kind = "response"
                   /\ other.response.action_taken = th[t].response.action_taken
                   /\ other.invoked # <<>> => other.action_result.success = FALSE

C26_Witness ==
    \E t \in Threads :
        /\ Dispatched(th[t])
        /\ Invoked(th[t], <<"trigger_identity_refresh">>)
        /\ Returned(th[t])
        /\ th[t].action_result.success = FALSE
        /\ th[t].response.kind = "response"
        /\ th[t].response.action_taken = <<"identity_refresh_triggered">>

\* The four ways a turn ends.
DirectReply(l) ==
    /\ Dispatched(l) /\ l.llm.tool_calls = <<>>
    /\ l.invoked = <<>> /\ l.response.kind = "response"
ToolResultResponse(l) ==
    /\ HasToolCall(l) /\ Len(l.invoked) = 1
    /\ l.response.kind = "response" /\ ~SaysNotRecognized(l)
UnrecognizedToolResponse(l) ==
    /\ HasToolCall(l) /\ l.invoked = <<>> /\ SaysNotRecognized(l)
ErrorResponse(l) ==
    /\ l.response.kind = "error" /\ l.response.status_code = HTTP_SERVER_ERROR

TerminalOutcomes(l) ==
    {k \in {"direct", "tool", "unrecognized", "error"} :
        \/ k = "direct" /\ DirectReply(l)
        \/ k = "tool" /\ ToolResultResponse(l)
        \/ k = "unrecognized" /\ UnrecognizedToolResponse(l)
        \/ k = "error" /\ ErrorResponse(l)}

\* The places of a turn in the order the code goes through them.
Place(pc) ==
    CASE pc = "idle" -> 0
      [] pc = "llm" -> 1
      [] pc = "token_lazy" -> 2
      [] pc = "refresh_first" -> 3
      [] pc = "token_reauth" -> 4
      [] pc = "refresh_retry" -> 5
      [] pc = "done" -> 6

\* C27: with every outbound call answered, a turn under way eventually
\* ends; a turn that ended has exactly one of the four terminal outcomes,
\* called the LLM at most once and dispatched at most one tool; and a turn
\* only moves forward: no step takes it back to the LLM call, to the
\* dispatch or to an earlier outbound call.
C27_TurnEndsOnce ==
    /\ (\E t \in Threads : th[t].pc \notin {"idle", "done"})
           ~> (\E t \in Threads : th[t].pc = "done")
    /\ [](\A t \in Threads :
             /\ th[t].llm_calls <= 1
             /\ Len(th[t].invoked) <= 1
             /\ th[t].pc = "done" => Cardinality(TerminalOutcomes(th[t])) = 1
             /\ th[t].pc # "done" => th[t].response = NoResponse)
    /\ [][\A t \in Threads :
             th[t].pc' # th[t].pc =>
                 \/ Place(th[t].pc') > Place(th[t].pc)
                 \/ th[t].pc = "done" /\ th[t].pc' = "idle"]_vars

C27_Witness ==
    \E t \in Threads :
        /\ th[t].pc = "done"
        /\ ToolResultResponse(th[t])
        /\ Len(th[t].calls) = 3
        /\ th[t].llm_calls = 1

====
